---- MODULE Spec2Model ----
(***************************************************************************)
(* Model of the Firehose output plugin's batch buffer                      *)
(* (firehose/firehose.go): AddRecord, Flush, sendCurrentBatch and          *)
(* processAPIResponse of OutputPlugin, with the PutRecordBatch call as a   *)
(* blocking point at which the service answers nondeterministically.       *)
(*                                                                         *)
(* Scaling.  The three API limits and the truncation suffix are scaled so  *)
(* that both caps are reachable by an exhaustive search: the source sets   *)
(* 500 records, 4194304 bytes per put, 1024000 bytes per record and a      *)
(* 14-byte suffix.  The orderings the code relies on are kept:             *)
(*   Len(truncatedSuffix) < maximumRecordSize < maximumPutRecordBatchSize, *)
(*   and maximumRecordsPerPut records of maximumRecordSize bytes exceed    *)
(*   maximumPutRecordBatchSize (true of 500 * 1024000 too).                *)
(* A byte is a one-character string; a payload is a sequence of bytes.     *)
(***************************************************************************)
EXTENDS Integers, Sequences, FiniteSets, TLC

\* ---------------------------------------------------------------- constants
maximumRecordsPerPut == 3
maximumPutRecordBatchSize == 7
maximumRecordSize == 3
truncatedSuffix == <<"]">>

\* fluent-bit return codes used by the plugin
FLB_ERROR == "FLB_ERROR"
FLB_OK == "FLB_OK"
FLB_RETRY == "FLB_RETRY"

\* firehose.ErrCodeServiceUnavailableException
ErrCodeServiceUnavailableException == "ServiceUnavailableException"

\* ------------------------------------------------------------------- bounds
\* longest output of the JSON / log-key encoder, before the newline
MaxMarshalLen == 3
\* the clock runs from 0 to MaxTime
MaxTime == 2

\* bytes an encoded payload is made of
PayloadBytes == {"a"}

\* nil of a pointer-valued field
Nil == "nil"
\* failing-since of a timer that is not running
NotFailing == -1

\* ------------------------------------------------------------------ helpers
RECURSIVE SeqsUpTo(_, _)
SeqsUpTo(S, n) ==
  IF n = 0 THEN {<<>>}
  ELSE LET shorter == SeqsUpTo(S, n - 1)
       IN shorter \cup {Append(s, x) : s \in {t \in shorter : Len(t) = n - 1}, x \in S}

\* what json.Marshal / plugins.EncodeLogKey can hand back: bytes, or an error
EncodeError == [err |-> TRUE, bytes |-> <<>>]
MarshalResults ==
  {[err |-> FALSE, bytes |-> s] : s \in SeqsUpTo(PayloadBytes, MaxMarshalLen)}
  \cup {EncodeError}

\* sum of len(record.Data) over a batch
RECURSIVE SumLen(_)
SumLen(recs) ==
  IF recs = <<>> THEN 0 ELSE Len(Head(recs)) + SumLen(Tail(recs))

\* --------------------------------------------------------- the record encoder
\* processRecord that cuts at the cap before it adds the suffix
processRecord_cutsAtCap(m) ==
  IF m.err
  THEN [err |-> TRUE, data |-> <<>>]
  ELSE LET withNewline == m.bytes \o <<"\n">>
       IN [err |-> FALSE,
           data |-> IF Len(withNewline) > maximumRecordSize
                    THEN SubSeq(withNewline, 1, maximumRecordSize) \o truncatedSuffix
                    ELSE withNewline]

\* processRecord from the marshalling step on: newline, then truncation
processRecord(m) ==
  IF m.err
  THEN [err |-> TRUE, data |-> <<>>]
  ELSE LET withNewline == m.bytes \o <<"\n">>
       IN [err |-> FALSE,
           data |-> IF Len(withNewline) > maximumRecordSize
                    THEN SubSeq(withNewline, 1, maximumRecordSize - Len(truncatedSuffix))
                         \o truncatedSuffix
                    ELSE withNewline]

\* ------------------------------------------------------- the delivery client
\* one entry of PutRecordBatchOutput.RequestResponses
Accepted == [ErrorCode |-> Nil, ErrorMessage |-> Nil]
Rejected == [ErrorCode |-> "InternalFailure", ErrorMessage |-> "failed"]
Throttled == [ErrorCode |-> ErrCodeServiceUnavailableException, ErrorMessage |-> "slow down"]
Outcomes == {Accepted, Rejected, Throttled}

RECURSIVE CountFailed(_)
CountFailed(outs) ==
  IF outs = <<>> THEN 0
  ELSE (IF Head(outs).ErrorCode # Nil THEN 1 ELSE 0) + CountFailed(Tail(outs))

NoResponse == [err |-> FALSE, FailedPutCount |-> 0, RequestResponses |-> <<>>]
TransportError == [err |-> TRUE, FailedPutCount |-> 0, RequestResponses |-> <<>>]

\* answers PutRecordBatch can give to a request of n records: a transport
\* error, or one outcome per record in request order with their failed count
PutRecordBatch(n) ==
  {TransportError} \cup
  {[err |-> FALSE, FailedPutCount |-> CountFailed(outs), RequestResponses |-> outs] :
     outs \in [1..n -> Outcomes]}

\* ------------------------------------------------------------------ the timer
\* configured threshold of plugins.Timeout
timeoutThreshold == 1
\* Timeout.Start: set failing-since only if it is not set
TimerStart(since, t) == IF since = NotFailing THEN t ELSE since
\* Timeout.Reset
TimerReset == NotFailing
\* Timeout.Check: the callback is due
TimerExpired(since, t) == since # NotFailing /\ t - since > timeoutThreshold

\* --------------------------------------------------------------------- state
VARIABLES
  records,            \* output.records: the payloads held, in order
  dataLength,         \* output.dataLength
  simpleAggregation,  \* output.simpleAggregation
  timeKey,            \* output.timeKey # ""
  failingSince,       \* the timer's failing-since, NotFailing when absent
  now,                \* the clock
  fatalCount,         \* times the timeout callback ran (it ends the process)
  pc,                 \* "idle", "call" (PutRecordBatch in flight),
                      \* "ret" (sendCurrentBatch returned to its caller), "exit"
  caller,             \* who called sendCurrentBatch: "AddRecord", "Flush", "none"
  data,               \* the encoded payload AddRecord is holding across the send
  response,           \* the answer PutRecordBatch gave to the send in progress
  sendRet,            \* return code of sendCurrentBatch, until its caller returns
  retCode,            \* return code of the last AddRecord or Flush, once returned
  lastCall,           \* history: the entry point last called and what the time
                      \* formatter and the encoder did with its record
  firstFail,          \* history: time of the first transport or total failure
                      \* since the last full success, NotFailing if none
  deliveredSince      \* history: a send since firstFail delivered some record

vars == <<records, dataLength, simpleAggregation, timeKey, failingSince, now,
          fatalCount, pc, caller, data, response, sendRet, retCode,
          lastCall, firstFail, deliveredSince>>

\* values of lastCall
NoCall == [op |-> "none", encode |-> "none", raw |-> <<>>, data |-> <<>>]
FlushCall == [op |-> "Flush", encode |-> "none", raw |-> <<>>, data |-> <<>>]
FormatErrorCall == [op |-> "AddRecord", encode |-> "formatError", raw |-> <<>>, data |-> <<>>]
EncodeErrorCall == [op |-> "AddRecord", encode |-> "encodeError", raw |-> <<>>, data |-> <<>>]
EncodedCall(m, d) == [op |-> "AddRecord", encode |-> "encoded", raw |-> m.bytes, data |-> d]

NoReturn == "none"

Init ==
  /\ records = <<>>
  /\ dataLength = 0
  /\ simpleAggregation \in BOOLEAN
  /\ timeKey \in BOOLEAN
  /\ failingSince = NotFailing
  /\ now = 0
  /\ fatalCount = 0
  /\ pc = "idle"
  /\ caller = "none"
  /\ data = <<>>
  /\ response = NoResponse
  /\ sendRet = NoReturn
  /\ retCode = NoReturn
  /\ lastCall = NoCall
  /\ firstFail = NotFailing
  /\ deliveredSince = FALSE

\* ------------------------------------------------------ processAPIResponse
\* walkResponses with the failed records prepended, not appended
RECURSIVE walkResponses_prepends(_, _, _, _)
walkResponses_prepends(recs, outs, i, failedRecords) ==
  IF i > Len(outs)
  THEN [aborted |-> FALSE, failedRecords |-> failedRecords]
  ELSE LET collected == IF outs[i].ErrorMessage # Nil
                        THEN <<recs[i]>> \o failedRecords
                        ELSE failedRecords
       IN IF outs[i].ErrorCode = ErrCodeServiceUnavailableException
          THEN [aborted |-> TRUE, failedRecords |-> collected]
          ELSE walkResponses_prepends(recs, outs, i + 1, collected)

\* the loop over response.RequestResponses: collects the records whose
\* outcome has an ErrorMessage, and stops at the first throttled outcome
RECURSIVE walkResponses(_, _, _, _)
walkResponses(recs, outs, i, failedRecords) ==
  IF i > Len(outs)
  THEN [aborted |-> FALSE, failedRecords |-> failedRecords]
  ELSE LET collected == IF outs[i].ErrorMessage # Nil
                        THEN Append(failedRecords, recs[i])
                        ELSE failedRecords
       IN IF outs[i].ErrorCode = ErrCodeServiceUnavailableException
          THEN [aborted |-> TRUE, failedRecords |-> collected]
          ELSE walkResponses(recs, outs, i + 1, collected)

\* processAPIResponse variants, each with one slip
\* the rebuilt batch keeps the old dataLength
processAPIResponse_staleLength(recs, length, since, t, resp) ==
  IF resp.FailedPutCount > 0
  THEN IF resp.FailedPutCount = Len(recs)
       THEN [ret |-> FLB_RETRY, records |-> recs, dataLength |-> length,
             since |-> TimerStart(since, t)]
       ELSE LET walk == walkResponses(recs, resp.RequestResponses, 1, <<>>)
            IN IF walk.aborted
               THEN [ret |-> FLB_RETRY, records |-> recs, dataLength |-> length,
                     since |-> since]
               ELSE [ret |-> FLB_OK, records |-> walk.failedRecords,
                     dataLength |-> length, since |-> since]
  ELSE [ret |-> FLB_OK, records |-> <<>>, dataLength |-> 0, since |-> TimerReset]

\* a total failure is treated like a partial one: the timer is not started
\* and the code is FLB_OK
processAPIResponse_totalAsPartial(recs, length, since, t, resp) ==
  IF resp.FailedPutCount > 0
  THEN LET walk == walkResponses(recs, resp.RequestResponses, 1, <<>>)
       IN IF walk.aborted
          THEN [ret |-> FLB_RETRY, records |-> recs, dataLength |-> length,
                since |-> since]
          ELSE [ret |-> FLB_OK, records |-> walk.failedRecords,
                dataLength |-> SumLen(walk.failedRecords), since |-> since]
  ELSE [ret |-> FLB_OK, records |-> <<>>, dataLength |-> 0, since |-> TimerReset]

\* a full success does not reset the timer
processAPIResponse_noReset(recs, length, since, t, resp) ==
  IF resp.FailedPutCount > 0
  THEN IF resp.FailedPutCount = Len(recs)
       THEN [ret |-> FLB_RETRY, records |-> recs, dataLength |-> length,
             since |-> TimerStart(since, t)]
       ELSE LET walk == walkResponses(recs, resp.RequestResponses, 1, <<>>)
            IN IF walk.aborted
               THEN [ret |-> FLB_RETRY, records |-> recs, dataLength |-> length,
                     since |-> since]
               ELSE [ret |-> FLB_OK, records |-> walk.failedRecords,
                     dataLength |-> SumLen(walk.failedRecords), since |-> since]
  ELSE [ret |-> FLB_OK, records |-> <<>>, dataLength |-> 0, since |-> since]

\* a throttled outcome ends the loop, and the records collected so far
\* replace the batch
processAPIResponse_throttledKeepsFailed(recs, length, since, t, resp) ==
  IF resp.FailedPutCount > 0
  THEN IF resp.FailedPutCount = Len(recs)
       THEN [ret |-> FLB_RETRY, records |-> recs, dataLength |-> length,
             since |-> TimerStart(since, t)]
       ELSE LET walk == walkResponses(recs, resp.RequestResponses, 1, <<>>)
            IN IF walk.aborted
               THEN [ret |-> FLB_RETRY, records |-> walk.failedRecords,
                     dataLength |-> SumLen(walk.failedRecords), since |-> since]
               ELSE [ret |-> FLB_OK, records |-> walk.failedRecords,
                     dataLength |-> SumLen(walk.failedRecords), since |-> since]
  ELSE [ret |-> FLB_OK, records |-> <<>>, dataLength |-> 0, since |-> TimerReset]

\* a rebuilt batch counts as progress: the timer is reset
processAPIResponse_partialResets(recs, length, since, t, resp) ==
  IF resp.FailedPutCount > 0
  THEN IF resp.FailedPutCount = Len(recs)
       THEN [ret |-> FLB_RETRY, records |-> recs, dataLength |-> length,
             since |-> TimerStart(since, t)]
       ELSE LET walk == walkResponses(recs, resp.RequestResponses, 1, <<>>)
            IN IF walk.aborted
               THEN [ret |-> FLB_RETRY, records |-> recs, dataLength |-> length,
                     since |-> since]
               ELSE [ret |-> FLB_OK, records |-> walk.failedRecords,
                     dataLength |-> SumLen(walk.failedRecords), since |-> TimerReset]
  ELSE [ret |-> FLB_OK, records |-> <<>>, dataLength |-> 0, since |-> TimerReset]

\* the failed records are collected but the batch is only emptied
processAPIResponse_partialClears(recs, length, since, t, resp) ==
  IF resp.FailedPutCount > 0
  THEN IF resp.FailedPutCount = Len(recs)
       THEN [ret |-> FLB_RETRY, records |-> recs, dataLength |-> length,
             since |-> TimerStart(since, t)]
       ELSE LET walk == walkResponses(recs, resp.RequestResponses, 1, <<>>)
            IN IF walk.aborted
               THEN [ret |-> FLB_RETRY, records |-> recs, dataLength |-> length,
                     since |-> since]
               ELSE [ret |-> FLB_OK, records |-> <<>>, dataLength |-> 0,
                     since |-> since]
  ELSE [ret |-> FLB_OK, records |-> <<>>, dataLength |-> 0, since |-> TimerReset]

\* a partial failure without a throttled outcome answers FLB_RETRY
processAPIResponse_partialRetries(recs, length, since, t, resp) ==
  IF resp.FailedPutCount > 0
  THEN IF resp.FailedPutCount = Len(recs)
       THEN [ret |-> FLB_RETRY, records |-> recs, dataLength |-> length,
             since |-> TimerStart(since, t)]
       ELSE LET walk == walkResponses(recs, resp.RequestResponses, 1, <<>>)
            IN IF walk.aborted
               THEN [ret |-> FLB_RETRY, records |-> recs, dataLength |-> length,
                     since |-> since]
               ELSE [ret |-> FLB_RETRY, records |-> walk.failedRecords,
                     dataLength |-> SumLen(walk.failedRecords), since |-> since]
  ELSE [ret |-> FLB_OK, records |-> <<>>, dataLength |-> 0, since |-> TimerReset]

\* processAPIResponse: the return code and the fields it leaves behind
processAPIResponse(recs, length, since, t, resp) ==
  IF resp.FailedPutCount > 0
  THEN IF resp.FailedPutCount = Len(recs)
       THEN [ret |-> FLB_RETRY, records |-> recs, dataLength |-> length,
             since |-> TimerStart(since, t)]
       ELSE LET walk == walkResponses(recs, resp.RequestResponses, 1, <<>>)
            IN IF walk.aborted
               THEN [ret |-> FLB_RETRY, records |-> recs, dataLength |-> length,
                     since |-> since]
               ELSE [ret |-> FLB_OK, records |-> walk.failedRecords,
                     dataLength |-> SumLen(walk.failedRecords), since |-> since]
  ELSE [ret |-> FLB_OK, records |-> <<>>, dataLength |-> 0, since |-> TimerReset]

\* afterPutRecordBatch that restarts the timer on every transport error
afterPutRecordBatch_errorRestartsTimer(recs, length, since, t, resp) ==
  IF resp.err
  THEN [ret |-> FLB_RETRY, records |-> recs, dataLength |-> length, since |-> t]
  ELSE processAPIResponse(recs, length, since, t, resp)

\* afterPutRecordBatch that drops the batch on a transport error
afterPutRecordBatch_errorDropsBatch(recs, length, since, t, resp) ==
  IF resp.err
  THEN [ret |-> FLB_RETRY, records |-> <<>>, dataLength |-> 0,
        since |-> TimerStart(since, t)]
  ELSE processAPIResponse(recs, length, since, t, resp)

\* sendCurrentBatch after PutRecordBatch has answered
afterPutRecordBatch(recs, length, since, t, resp) ==
  IF resp.err
  THEN [ret |-> FLB_RETRY, records |-> recs, dataLength |-> length,
        since |-> TimerStart(since, t)]
  ELSE processAPIResponse(recs, length, since, t, resp)

\* --------------------------------------------------------------- AddRecord
\* the flush test with the record cap off by one
needsFlush_countOffByOne(recs, length, newDataSize) ==
  \/ Len(recs) > maximumRecordsPerPut
  \/ length + newDataSize > maximumPutRecordBatchSize

\* the flush test of AddRecord
needsFlush(recs, length, newDataSize) ==
  \/ Len(recs) = maximumRecordsPerPut
  \/ length + newDataSize > maximumPutRecordBatchSize

\* appendRecord that aggregates the new bytes in front of the last record's
appendRecord_prependsBytes(recs, aggregate, d) ==
  IF aggregate /\ Len(recs) > 0 /\ Len(recs[Len(recs)]) + Len(d) <= maximumRecordSize
  THEN [recs EXCEPT ![Len(recs)] = d \o recs[Len(recs)]]
  ELSE Append(recs, d)

\* appendRecord that aggregates only strictly below the record cap
appendRecord_strictlyBelowCap(recs, aggregate, d) ==
  IF aggregate /\ Len(recs) > 0 /\ Len(recs[Len(recs)]) + Len(d) < maximumRecordSize
  THEN [recs EXCEPT ![Len(recs)] = recs[Len(recs)] \o d]
  ELSE Append(recs, d)

\* the append step of AddRecord: onto the last record, or a new record
appendRecord(recs, aggregate, d) ==
  IF aggregate /\ Len(recs) > 0 /\ Len(recs[Len(recs)]) + Len(d) <= maximumRecordSize
  THEN [recs EXCEPT ![Len(recs)] = recs[Len(recs)] \o d]
  ELSE Append(recs, d)

\* ------------------------------------------------------- response shapes
\* shapes of an answer to a request of n records
FullSuccess(resp) ==
  ~resp.err /\ resp.FailedPutCount = 0 /\ resp.RequestResponses # <<>>
TotalFailure(resp) ==
  ~resp.err /\ resp.FailedPutCount > 0
  /\ resp.FailedPutCount = Len(resp.RequestResponses)
PartialFailure(resp) ==
  ~resp.err /\ resp.FailedPutCount > 0
  /\ resp.FailedPutCount < Len(resp.RequestResponses)
HasOverload(resp) ==
  \E i \in 1..Len(resp.RequestResponses) :
     resp.RequestResponses[i].ErrorCode = ErrCodeServiceUnavailableException

\* the history variables after the answer resp at time t
firstFailAfter(first, t, resp) ==
  IF FullSuccess(resp) THEN NotFailing
  ELSE IF (resp.err \/ TotalFailure(resp)) /\ first = NotFailing THEN t
  ELSE first
deliveredSinceAfter(delivered, first, resp) ==
  IF FullSuccess(resp) THEN FALSE
  ELSE IF PartialFailure(resp) /\ first # NotFailing THEN TRUE
  ELSE delivered

\* ------------------------------------------------------------------ actions
\* sendCurrentBatch without the empty-batch return
sendCurrentBatch_sendsEmpty(c, d) ==
  /\ caller' = c
  /\ data' = d
  /\ response' = NoResponse
  /\ retCode' = NoReturn
  /\ UNCHANGED <<records, dataLength, simpleAggregation, timeKey, failingSince, now,
                 firstFail, deliveredSince>>
  /\ IF TimerExpired(failingSince, now)
     THEN pc' = "exit" /\ fatalCount' = fatalCount + 1 /\ sendRet' = NoReturn
     ELSE pc' = "call" /\ fatalCount' = fatalCount /\ sendRet' = NoReturn

\* sendCurrentBatch that never polls the timer
sendCurrentBatch_noCheck(c, d) ==
  /\ caller' = c
  /\ data' = d
  /\ response' = NoResponse
  /\ retCode' = NoReturn
  /\ UNCHANGED <<records, dataLength, simpleAggregation, timeKey, failingSince, now,
                 firstFail, deliveredSince>>
  /\ IF Len(records) = 0
     THEN pc' = "ret" /\ sendRet' = FLB_OK /\ fatalCount' = fatalCount
     ELSE pc' = "call" /\ fatalCount' = fatalCount /\ sendRet' = NoReturn

\* sendCurrentBatch up to the PutRecordBatch call, entered from caller c
\* holding payload d
sendCurrentBatch(c, d) ==
  /\ caller' = c
  /\ data' = d
  /\ response' = NoResponse
  /\ retCode' = NoReturn
  /\ UNCHANGED <<records, dataLength, simpleAggregation, timeKey, failingSince, now,
                 firstFail, deliveredSince>>
  /\ IF Len(records) = 0
     THEN pc' = "ret" /\ sendRet' = FLB_OK /\ fatalCount' = fatalCount
     ELSE IF TimerExpired(failingSince, now)
          THEN pc' = "exit" /\ fatalCount' = fatalCount + 1 /\ sendRet' = NoReturn
          ELSE pc' = "call" /\ fatalCount' = fatalCount /\ sendRet' = NoReturn

\* AddRecord that logs the encoder's error and carries on with no data
AddRecord_encodeErrorFallsThrough(formatFails, m) ==
  /\ pc = "idle"
  /\ IF timeKey /\ formatFails
     THEN /\ retCode' = FLB_ERROR
          /\ lastCall' = FormatErrorCall
          /\ UNCHANGED <<records, dataLength, simpleAggregation, timeKey,
                         failingSince, now, fatalCount, pc, caller, data,
                         response, sendRet, firstFail, deliveredSince>>
     ELSE LET enc == processRecord(m) IN
          /\ lastCall' = IF enc.err THEN EncodeErrorCall ELSE EncodedCall(m, enc.data)
          /\ IF needsFlush(records, dataLength, Len(enc.data))
             THEN sendCurrentBatch("AddRecord", enc.data)
             ELSE /\ records' = appendRecord(records, simpleAggregation, enc.data)
                  /\ dataLength' = dataLength + Len(enc.data)
                  /\ retCode' = FLB_OK
                  /\ UNCHANGED <<simpleAggregation, timeKey, failingSince, now,
                                 fatalCount, pc, caller, data, response, sendRet,
                                 firstFail, deliveredSince>>

\* AddRecord(record, timeStamp), up to its return or its send; formatFails
\* and m are what the time formatter and the marshaller do with the record
AddRecord(formatFails, m) ==
  /\ pc = "idle"
  /\ IF timeKey /\ formatFails
     THEN /\ retCode' = FLB_ERROR
          /\ lastCall' = FormatErrorCall
          /\ UNCHANGED <<records, dataLength, simpleAggregation, timeKey,
                         failingSince, now, fatalCount, pc, caller, data,
                         response, sendRet, firstFail, deliveredSince>>
     ELSE LET enc == processRecord(m) IN
          IF enc.err
          THEN /\ retCode' = FLB_OK
               /\ lastCall' = EncodeErrorCall
               /\ UNCHANGED <<records, dataLength, simpleAggregation, timeKey,
                              failingSince, now, fatalCount, pc, caller, data,
                              response, sendRet, firstFail, deliveredSince>>
          ELSE /\ lastCall' = EncodedCall(m, enc.data)
               /\ IF needsFlush(records, dataLength, Len(enc.data))
                  THEN sendCurrentBatch("AddRecord", enc.data)
                  ELSE /\ records' = appendRecord(records, simpleAggregation, enc.data)
                       /\ dataLength' = dataLength + Len(enc.data)
                       /\ retCode' = FLB_OK
                       /\ UNCHANGED <<simpleAggregation, timeKey, failingSince, now,
                                      fatalCount, pc, caller, data, response, sendRet,
                                      firstFail, deliveredSince>>

\* AddRecordResume that appends whatever sendCurrentBatch returned
AddRecordResume_ignoresRetCode ==
  /\ pc = "ret"
  /\ caller = "AddRecord"
  /\ records' = appendRecord(records, simpleAggregation, data)
  /\ dataLength' = dataLength + Len(data)
  /\ retCode' = IF sendRet # FLB_OK THEN sendRet ELSE FLB_OK
  /\ pc' = "idle"
  /\ caller' = "none"
  /\ data' = <<>>
  /\ response' = NoResponse
  /\ sendRet' = NoReturn
  /\ UNCHANGED <<simpleAggregation, timeKey, failingSince, now, fatalCount,
                 lastCall, firstFail, deliveredSince>>

\* AddRecord after its sendCurrentBatch returned
AddRecordResume ==
  /\ pc = "ret"
  /\ caller = "AddRecord"
  /\ IF sendRet # FLB_OK
     THEN /\ retCode' = sendRet
          /\ UNCHANGED <<records, dataLength>>
     ELSE /\ records' = appendRecord(records, simpleAggregation, data)
          /\ dataLength' = dataLength + Len(data)
          /\ retCode' = FLB_OK
  /\ pc' = "idle"
  /\ caller' = "none"
  /\ data' = <<>>
  /\ response' = NoResponse
  /\ sendRet' = NoReturn
  /\ UNCHANGED <<simpleAggregation, timeKey, failingSince, now, fatalCount,
                 lastCall, firstFail, deliveredSince>>

\* Flush up to its send
Flush ==
  /\ pc = "idle"
  /\ lastCall' = FlushCall
  /\ sendCurrentBatch("Flush", <<>>)

\* Flush after its sendCurrentBatch returned
FlushReturn ==
  /\ pc = "ret"
  /\ caller = "Flush"
  /\ retCode' = sendRet
  /\ pc' = "idle"
  /\ caller' = "none"
  /\ response' = NoResponse
  /\ sendRet' = NoReturn
  /\ UNCHANGED <<records, dataLength, simpleAggregation, timeKey, failingSince,
                 now, fatalCount, data, lastCall, firstFail, deliveredSince>>

\* PutRecordBatch answers and sendCurrentBatch runs to its return
PutRecordBatchReturns(resp) ==
  /\ pc = "call"
  /\ LET r == afterPutRecordBatch(records, dataLength, failingSince, now, resp) IN
       /\ records' = r.records
       /\ dataLength' = r.dataLength
       /\ failingSince' = r.since
       /\ sendRet' = r.ret
  /\ response' = resp
  /\ pc' = "ret"
  /\ firstFail' = firstFailAfter(firstFail, now, resp)
  /\ deliveredSince' = deliveredSinceAfter(deliveredSince, firstFail, resp)
  /\ UNCHANGED <<simpleAggregation, timeKey, now, fatalCount, caller, data, retCode,
                 lastCall>>

\* time passes, between calls or while PutRecordBatch blocks
Tick ==
  /\ pc \in {"idle", "call"}
  /\ now < MaxTime
  /\ now' = now + 1
  /\ UNCHANGED <<records, dataLength, simpleAggregation, timeKey, failingSince,
                 fatalCount, pc, caller, data, response, sendRet, retCode,
                 lastCall, firstFail, deliveredSince>>

Next ==
  \/ \E formatFails \in BOOLEAN, m \in MarshalResults : AddRecord(formatFails, m)
  \/ AddRecordResume
  \/ Flush
  \/ FlushReturn
  \/ \E resp \in PutRecordBatch(Len(records)) : PutRecordBatchReturns(resp)
  \/ Tick

Spec == Init /\ [][Next]_vars

\* ------------------------------------------------------------ vocabulary
\* the step in which PutRecordBatch answers a send of the current batch
SendAnswered == pc = "call" /\ pc' = "ret"
\* positions of the request whose outcome carried an error
ErrPositions(resp) ==
  {i \in 1..Len(resp.RequestResponses) : resp.RequestResponses[i].ErrorMessage # Nil}
\* the k-th smallest member of a set of positions
NthPosition(S, k) == CHOOSE i \in S : Cardinality({j \in S : j <= i}) = k
\* kept is sent restricted to the positions P, in the order of sent
IsRestriction(kept, sent, P) ==
  /\ Len(kept) = Cardinality(P)
  /\ \A k \in 1..Len(kept) : kept[k] = sent[NthPosition(P, k)]
\* total bytes of a batch, counted byte by byte
RECURSIVE Flatten(_)
Flatten(recs) == IF recs = <<>> THEN <<>> ELSE Head(recs) \o Flatten(Tail(recs))

\* ------------------------------------------------------------------ claims
\* C1: in every reachable state dataLength equals the sum of the byte
\* lengths of the records held in the pending batch.
C1_DataLengthIsSum == dataLength = Len(Flatten(records))

\* C1 witness: a rebuilt batch after a partial failure, aggregation on
C1_Witness ==
  /\ pc = "ret" /\ simpleAggregation
  /\ PartialFailure(response) /\ ~HasOverload(response)
  /\ dataLength > 0 /\ Len(records) = 2

\* C2: whenever PutRecordBatch is invoked, the submitted records total at
\* most maximumPutRecordBatchSize bytes.
C2_SentBytesWithinCap ==
  pc = "call" => Len(Flatten(records)) <= maximumPutRecordBatchSize

\* C3: in every reachable state, and so at every PutRecordBatch call, the
\* pending batch holds at most maximumRecordsPerPut entries.
C3_CountWithinCap == Len(records) <= maximumRecordsPerPut

\* C3 witness: a full batch is being sent by AddRecord's implicit flush
C3_Witness ==
  pc = "call" /\ caller = "AddRecord" /\ Len(records) = maximumRecordsPerPut

\* C4: a partial failure without an overload code leaves exactly the records
\* at the positions that carried an error, in their order, dataLength their
\* total length, and sendCurrentBatch returns FLB_OK.
C4_PartialKeepsFailed ==
  [][SendAnswered /\ PartialFailure(response') /\ ~HasOverload(response')
       => /\ IsRestriction(records', records, ErrPositions(response'))
          /\ dataLength' = Len(Flatten(records'))
          /\ sendRet' = FLB_OK]_vars

\* C4 witness: first and third of three different records failed and are kept
C4_Witness ==
  /\ pc = "ret"
  /\ response.RequestResponses = <<Rejected, Accepted, Rejected>>
  /\ Len(records) = 2 /\ records[1] # records[2]
  /\ sendRet = FLB_OK

\* C5: a total failure returns FLB_RETRY, leaves failing-since set (where it
\* was, if it was set) and leaves the batch and dataLength as sent.
C5_TotalFailureKeepsBatch ==
  [][SendAnswered /\ TotalFailure(response')
       => /\ sendRet' = FLB_RETRY
          /\ failingSince' # NotFailing
          /\ (failingSince # NotFailing => failingSince' = failingSince)
          /\ records' = records
          /\ dataLength' = dataLength]_vars

\* C5 witness: every one of two or more records was rejected
C5_Witness ==
  /\ pc = "ret" /\ TotalFailure(response) /\ Len(records) >= 2
  /\ sendRet = FLB_RETRY /\ failingSince # NotFailing

\* C6: a transport error returns FLB_RETRY, starts the timer if it is not
\* running and leaves the batch and dataLength unchanged.
C6_TransportErrorKeepsBatch ==
  [][SendAnswered /\ response'.err
       => /\ sendRet' = FLB_RETRY
          /\ failingSince' = (IF failingSince = NotFailing THEN now ELSE failingSince)
          /\ records' = records
          /\ dataLength' = dataLength]_vars

\* C6 witness: a transport error on a batch, the timer started earlier
C6_Witness ==
  /\ pc = "ret" /\ response.err /\ records # <<>>
  /\ sendRet = FLB_RETRY /\ failingSince # NotFailing /\ failingSince < now

\* C7: a full success empties the batch, zeroes dataLength, clears
\* failing-since and returns FLB_OK, whatever the state before.
C7_FullSuccessClears ==
  [][SendAnswered /\ FullSuccess(response')
       => /\ records' = <<>>
          /\ dataLength' = 0
          /\ failingSince' = NotFailing
          /\ sendRet' = FLB_OK]_vars

\* C7 witness: a full success has been processed
C7_Witness ==
  /\ pc = "ret" /\ FullSuccess(response) /\ Len(response.RequestResponses) >= 2
  /\ records = <<>> /\ sendRet = FLB_OK /\ failingSince = NotFailing

\* C8: a partial failure with an overload code anywhere returns FLB_RETRY and
\* leaves the whole batch and dataLength unchanged.
C8_OverloadKeepsWholeBatch ==
  [][SendAnswered /\ PartialFailure(response') /\ HasOverload(response')
       => /\ sendRet' = FLB_RETRY
          /\ records' = records
          /\ dataLength' = dataLength]_vars

\* C8 witness: an accepted and a rejected record precede the throttled one
C8_Witness ==
  /\ pc = "ret"
  /\ response.RequestResponses = <<Accepted, Rejected, Throttled>>
  /\ Len(records) = 3 /\ sendRet = FLB_RETRY

\* C9 as stated: sendCurrentBatch returns FLB_RETRY only on a transport
\* error or a total failure.
C9_RetryOnlyTransportOrTotal ==
  pc = "ret" /\ sendRet = FLB_RETRY => response.err \/ TotalFailure(response)

\* C9 amended: sendCurrentBatch returns FLB_RETRY exactly on a transport
\* error, a total failure or a partial failure with an overload code, a
\* partial failure without one returns FLB_OK, and Flush and AddRecord
\* return FLB_RETRY exactly when their sendCurrentBatch did.
C9_RetryCauses ==
  /\ [](pc = "ret" =>
          /\ sendRet \in {FLB_OK, FLB_RETRY}
          /\ (sendRet = FLB_RETRY <=>
                \/ response.err
                \/ TotalFailure(response)
                \/ (PartialFailure(response) /\ HasOverload(response))))
  /\ [][pc = "ret" /\ pc' = "idle"
          => (retCode' = FLB_RETRY <=> sendRet = FLB_RETRY)]_vars

\* C9 witness: a partial failure without an overload code came back FLB_OK
C9_Witness ==
  /\ pc = "ret" /\ PartialFailure(response) /\ ~HasOverload(response)
  /\ sendRet = FLB_OK /\ caller = "Flush"

\* C10: AddRecord appends without sending only below both caps; after an
\* implicit flush that did not return FLB_OK it returns that code and leaves
\* the batch as the flush left it; after one that returned FLB_OK the new
\* payload comes after what the flush left.
C10_ImplicitFlush ==
  /\ [][pc = "idle" /\ pc' = "idle" /\ records' # records
          => /\ Len(records) < maximumRecordsPerPut
             /\ dataLength' <= maximumPutRecordBatchSize]_vars
  /\ [][pc = "ret" /\ caller = "AddRecord" /\ pc' = "idle"
          => IF sendRet # FLB_OK
             THEN retCode' = sendRet /\ records' = records /\ dataLength' = dataLength
             ELSE /\ retCode' = FLB_OK
                  /\ Flatten(records') = Flatten(records) \o data
                  /\ Len(records') \in {Len(records), Len(records) + 1}
                  /\ \A i \in 1..(Len(records) - 1) : records'[i] = records[i]
                  /\ dataLength' = dataLength + Len(data)]_vars

\* C10 witness: the implicit flush failed with the new payload in hand
C10_Witness ==
  /\ pc = "ret" /\ caller = "AddRecord" /\ sendRet = FLB_RETRY
  /\ data # <<>> /\ Len(records) = maximumRecordsPerPut

\* C11: when processRecord fails, AddRecord returns FLB_OK, makes no send
\* and leaves the batch, dataLength and failing-since as they were.
C11_EncodeFailureDropsOnlyTheRecord ==
  [][pc = "idle" /\ lastCall'.encode = "encodeError"
       => /\ pc' = "idle"
          /\ retCode' = FLB_OK
          /\ records' = records
          /\ dataLength' = dataLength
          /\ failingSince' = failingSince
          /\ fatalCount' = fatalCount]_vars

\* C11 witness: an encode failure returned with records held and the timer
\* running
C11_Witness ==
  /\ pc = "idle" /\ lastCall = EncodeErrorCall /\ retCode = FLB_OK
  /\ Len(records) >= 2 /\ failingSince # NotFailing

\* C12: AddRecord returns FLB_OK or FLB_RETRY on every path.
C12_AddRecordReturnsOkOrRetry ==
  pc = "idle" /\ lastCall.op = "AddRecord" => retCode \in {FLB_OK, FLB_RETRY}

\* the append steps of AddRecord and the payload each appends: straight
\* from the call, or after an implicit flush that returned FLB_OK
DirectAppend ==
  pc = "idle" /\ pc' = "idle" /\ now' = now /\ lastCall'.encode = "encoded"
ResumedAppend ==
  pc = "ret" /\ caller = "AddRecord" /\ sendRet = FLB_OK /\ pc' = "idle"
\* d goes onto the end of the last entry of old
MergedOntoLast(old, new, d) ==
  /\ Len(new) = Len(old)
  /\ new[Len(old)] = old[Len(old)] \o d
  /\ \A i \in 1..(Len(old) - 1) : new[i] = old[i]
\* d becomes one new entry after those of old
AddedAsEntry(old, new, d) ==
  /\ Len(new) = Len(old) + 1
  /\ new[Len(new)] = d
  /\ \A i \in 1..Len(old) : new[i] = old[i]
\* the append step as claimed, for the payload d
AppendsAsClaimed(d) ==
  /\ IF simpleAggregation /\ records # <<>>
        /\ Len(records[Len(records)]) + Len(d) <= maximumRecordSize
     THEN MergedOntoLast(records, records', d)
     ELSE AddedAsEntry(records, records', d)
  /\ dataLength' = dataLength + Len(d)

\* C13: the append step concatenates onto the last entry when aggregation is
\* on, the batch is non-empty and the sum fits maximumRecordSize, and adds
\* one entry otherwise; dataLength grows by the payload's length.
C13_AppendOrAggregate ==
  [][(DirectAppend => AppendsAsClaimed(lastCall'.data))
     /\ (ResumedAppend => AppendsAsClaimed(data))]_vars

\* C13 witness: two payloads that fill an entry exactly were aggregated
C13_Witness ==
  /\ pc = "idle" /\ simpleAggregation /\ retCode = FLB_OK
  /\ lastCall.encode = "encoded" /\ lastCall.data = <<"a", "\n">>
  /\ records = << <<"\n", "a", "\n">> >>

\* C14: the fatal callback runs at most once and ends the run; it runs only
\* with failing-since set and more than the threshold elapsed; and a send of a
\* non-empty batch that finds sends failing for longer than the threshold
\* runs it.
ThresholdPassed(since) == since # NotFailing /\ now - since > timeoutThreshold
C14_FatalOncePastThreshold ==
  /\ [](fatalCount <= 1)
  /\ [][fatalCount' # fatalCount
          => /\ fatalCount' = fatalCount + 1
             /\ ThresholdPassed(failingSince)
             /\ records # <<>>]_vars
  /\ [][pc = "idle" /\ pc' # "idle" /\ records # <<>> /\ ThresholdPassed(firstFail)
          => fatalCount' = fatalCount + 1 /\ pc' = "exit"]_vars
  /\ [][pc # "exit"]_vars

\* C14 witness: the callback has run
C14_Witness == pc = "exit" /\ fatalCount = 1 /\ ~deliveredSince

\* C15: a payload longer than maximumRecordSize with its newline is cut to
\* exactly maximumRecordSize bytes ending in truncatedSuffix, a shorter one
\* is kept as it is, and every held entry is at most maximumRecordSize bytes.
C15_TruncatedToRecordCap ==
  /\ lastCall.encode = "encoded" =>
       LET full == lastCall.raw \o <<"\n">>
           d == lastCall.data
       IN IF Len(full) > maximumRecordSize
          THEN /\ Len(d) = maximumRecordSize
               /\ SubSeq(d, Len(d) - Len(truncatedSuffix) + 1, Len(d)) = truncatedSuffix
          ELSE d = full
  /\ \A i \in 1..Len(records) : Len(records[i]) <= maximumRecordSize

\* C15 witness: a truncated payload is the last entry held
C15_Witness ==
  /\ pc = "idle" /\ retCode = FLB_OK /\ lastCall.encode = "encoded"
  /\ Len(lastCall.raw) + 1 > maximumRecordSize
  /\ Len(records) >= 2 /\ records[Len(records)] = lastCall.data

\* new is old restricted to some set of positions, in the order of old
KeptInOrder(old, new) ==
  \E P \in SUBSET (1..Len(old)) : IsRestriction(new, old, P)
\* new is old with the payload d after everything old held
PayloadAtEnd(old, new, d) ==
  \/ AddedAsEntry(old, new, d)
  \/ old # <<>> /\ MergedOntoLast(old, new, d)

\* C16: no step reorders the held bytes: an answer leaves a subsequence of
\* the batch in its order, an append puts the new payload after everything
\* held (so after the records a partial failure retained), and no other step
\* touches the batch; the held bytes are therefore those of a subsequence of
\* the appended payloads in AddRecord order.
C16_OrderPreserved ==
  [][IF SendAnswered
     THEN KeptInOrder(records, records')
     ELSE \/ records' = records
          \/ /\ pc' = "idle" /\ lastCall'.encode = "encoded"
             /\ PayloadAtEnd(records, records', lastCall'.data)]_vars

\* C16 witness: two different records retained in order by the implicit
\* flush, the new payload about to follow them
C16_Witness ==
  /\ pc = "ret" /\ caller = "AddRecord" /\ sendRet = FLB_OK
  /\ PartialFailure(response) /\ ~HasOverload(response)
  /\ Len(records) = 2 /\ records[1] # records[2] /\ data # <<>>

\* C17: a send of an empty batch returns FLB_OK with no PutRecordBatch call,
\* no callback and nothing changed; a PutRecordBatch call is made only for a
\* non-empty batch whose timer has not passed the threshold, and none is
\* made once the callback has run.
C17_EmptySendAndCheckBeforeCall ==
  /\ [][pc = "idle" /\ pc' # "idle" /\ records = <<>>
          => /\ pc' = "ret" /\ sendRet' = FLB_OK
             /\ records' = records /\ dataLength' = dataLength
             /\ failingSince' = failingSince /\ fatalCount' = fatalCount]_vars
  /\ [][pc' = "call" /\ pc # "call"
          => pc = "idle" /\ records # <<>> /\ ~ThresholdPassed(failingSince)]_vars
  /\ [](fatalCount > 0 => pc = "exit")
  /\ [][~(pc = "exit" /\ pc' = "call")]_vars

\* C17 witness: Flush on an empty batch has returned from its send
C17_Witness ==
  /\ pc = "ret" /\ caller = "Flush" /\ response = NoResponse
  /\ sendRet = FLB_OK /\ records = <<>> /\ now > 0

\* C18: failing-since is absent initially and after every full success, and
\* while set it is the time of the first transport or total failure since
\* the last full success (or since construction).
C18_FailingSinceIsFirstFailure == failingSince = firstFail

\* C18 witness: a failing send found failing-since set earlier and left it
C18_Witness ==
  /\ pc = "ret" /\ (response.err \/ TotalFailure(response))
  /\ failingSince # NotFailing /\ failingSince < now

\* C19 as stated (its consequence): the callback runs only if no send since
\* failing-since was set delivered a record.
C19_FatalOnlyWithoutDelivery == fatalCount > 0 => ~deliveredSince

\* C19 amended: a partial failure, rebuilt or throttled, leaves failing-since
\* as it was; the callback runs only if no full success came since the first
\* failure, whether or not a partial failure delivered records in between.
C19_PartialLeavesTimer ==
  /\ [][SendAnswered /\ PartialFailure(response')
          => failingSince' = failingSince]_vars
  /\ [][fatalCount' # fatalCount => ThresholdPassed(firstFail)]_vars

\* C19 witness: the callback ran although a partial failure had delivered
\* records since the first failure
C19_Witness == pc = "exit" /\ fatalCount = 1 /\ deliveredSince

\* an answer removes only entries whose own outcome was accepted
LeavesOnlyAccepted ==
  \E P \in SUBSET (1..Len(records)) :
     /\ IsRestriction(records', records, P)
     /\ \A i \in (1..Len(records)) \ P :
          ~response'.err /\ response'.RequestResponses[i] = Accepted
\* the step in which an AddRecord call returns
AddRecordReturns ==
  pc \in {"idle", "ret"} /\ pc' = "idle" /\ now' = now /\ lastCall'.op = "AddRecord"
\* the call's implicit flush did not return FLB_OK
ImplicitFlushFailed == pc = "ret" /\ sendRet # FLB_OK
\* the call's payload has gone to the end of the batch
PayloadAppended ==
  /\ lastCall'.encode = "encoded"
  /\ records' # records
  /\ Flatten(records') = Flatten(records) \o lastCall'.data
\* no step but an answer removes or changes what is held
HeldUntilAccepted ==
  IF SendAnswered
  THEN LeavesOnlyAccepted
  ELSE \/ records' = records
       \/ PayloadAtEnd(records, records', lastCall'.data)

\* C20 as stated: entries leave the batch only when accepted, and an
\* AddRecord drops its record only on an encode failure or a failed implicit
\* flush.
C20_OnlyEncodeOrFlushFailureDrops ==
  [][/\ HeldUntilAccepted
     /\ (AddRecordReturns /\ lastCall'.encode # "encodeError" /\ ~ImplicitFlushFailed
           => PayloadAppended)]_vars

\* C20 amended: entries leave the batch only when accepted, and an AddRecord
\* drops its record only on an encode failure, a failed implicit flush or a
\* time-key formatting failure.
C20_NoAcceptedRecordLost ==
  [][/\ HeldUntilAccepted
     /\ (AddRecordReturns /\ lastCall'.encode \notin {"encodeError", "formatError"}
           /\ ~ImplicitFlushFailed
           => PayloadAppended)]_vars

\* C20 witness: a time-key formatting failure returned with records held
C20_Witness ==
  /\ pc = "idle" /\ lastCall = FormatErrorCall /\ retCode = FLB_ERROR
  /\ Len(records) >= 2

====
